---- MODULE Spec2Model ----
(***************************************************************************)
(* Model of routes/doctorRoutes.js (NexusCare backend): the doctors-only   *)
(* router, its consultation check and the health-summary pipeline.         *)
(*                                                                         *)
(* Requests run concurrently, one per connection of Conns (variable reqs);  *)
(* every `await` of a handler is a separate step, so that other requests,  *)
(* the consultation registry and the record stores can move between the    *)
(* steps of one request.                                                   *)
(***************************************************************************)
EXTENDS Integers, Sequences, FiniteSets, TLC

\* ------------------------------------------------------------------ bounds
MaxClock == 2
MaxRecords == 2

\* --------------------------------------------------------------- universe
\* D1 is a stored doctor; D0 is a doctor identity carried by a valid token
\* whose User document does not exist.  P1 is a stored patient; P2 is a
\* patient id whose User document does not exist.
Doctors == {"D1", "D0"}
Patients == {"P1", "P2"}
StoredUsers == {"D1", "P1"}
Actors ==
  {[userId |-> "D1", role |-> "doctor"],
   [userId |-> "D0", role |-> "doctor"],
   [userId |-> "P1", role |-> "patient"]}
Ops ==
  {"myPatients", "getVitals", "getFiles", "postNote", "getNotes",
   "postPrescription", "myPrescriptions", "getSummary"}
Null == "null"
\* A field that is not there (undefined in JavaScript).
Absent == "absent"
\* The connections on which requests arrive; the requests of different
\* connections interleave at every await.
Conns == {1, 2}

Times == 1..MaxClock

VARIABLES
  consulted,      \* User.consultedPatients of each stored doctor
  now,            \* the clock when it last stamped a createdAt
  vitalsDb,       \* Record collection, in insertion order
  filesDb,        \* File collection
  notesDb,        \* Note collection
  rxDb,           \* Prescription collection
  apiKey,         \* process.env.MISTRAL_API_KEY is set
  reqs,           \* the request of each connection
  everGranted,    \* history: (doctor, patient) pairs that passed a check
  revoked         \* history: pairs whose link was removed and not re-added

vars ==
  <<consulted, now, vitalsDb, filesDb, notesDb, rxDb, apiKey, reqs,
    everGranted, revoked>>

\* ---------------------------------------------------------------- helpers
RECURSIVE SelectSeqBy(_, _)
\* Model.find(filter): the documents of a collection that belong to patient p.
SelectSeqBy(s, p) ==
  IF s = <<>> THEN <<>>
  ELSE IF Head(s).patientId = p
       THEN <<Head(s)>> \o SelectSeqBy(Tail(s), p)
       ELSE SelectSeqBy(Tail(s), p)

RECURSIVE InsertAsc(_, _)
InsertAsc(s, x) ==
  IF s = <<>> THEN <<x>>
  ELSE IF x.createdAt < Head(s).createdAt
       THEN <<x>> \o s
       ELSE <<Head(s)>> \o InsertAsc(Tail(s), x)

RECURSIVE InsertDesc(_, _)
InsertDesc(s, x) ==
  IF s = <<>> THEN <<x>>
  ELSE IF x.createdAt > Head(s).createdAt
       THEN <<x>> \o s
       ELSE <<Head(s)>> \o InsertDesc(Tail(s), x)

RECURSIVE SortAsc_desc(_)
\* The mutated sort is the newest-first sort of the list handlers.
SortAsc_desc(s) ==
  IF s = <<>> THEN <<>>
  ELSE InsertDesc(SortAsc_desc(SubSeq(s, 1, Len(s) - 1)), s[Len(s)])

RECURSIVE SortAsc(_)
\* .sort({ createdAt: 1 })
SortAsc(s) ==
  IF s = <<>> THEN <<>>
  ELSE InsertAsc(SortAsc(SubSeq(s, 1, Len(s) - 1)), s[Len(s)])

RECURSIVE Reverse(_)
Reverse(s) == IF s = <<>> THEN <<>> ELSE Reverse(Tail(s)) \o <<Head(s)>>

\* .sort({ createdAt: -1 })
SortDesc(s) == Reverse(SortAsc(s))

\* new Date(createdAt).toLocaleDateString(): the calendar day of an instant;
\* two instants of the same day render alike.
LocaleDate(t) == (t + 1) \div 2

\* .populate("doctorId", "name"): the referenced User, or null when it is gone.
Populate(n) ==
  [n EXCEPT !.doctorId = IF n.doctorId \in StoredUsers THEN n.doctorId ELSE Null]

\* ------------------------------------------------- consultation registry
\* User.findById(id): the stored document, or null (found = FALSE).
FindUserById(id) ==
  IF id \in StoredUsers
  THEN [found |-> TRUE, id |-> id,
        consultedPatients |-> IF id \in DOMAIN consulted THEN consulted[id] ELSE {}]
  ELSE [found |-> FALSE, id |-> Null, consultedPatients |-> {}]

\* The registry itself: patient p is in doctor d's stored consulted set.
Linked(d, p) == d \in DOMAIN consulted /\ p \in consulted[d]

\* The mutated lookup remembers an earlier positive answer for the pair.
isDoctorConsultingPatient_cached(doctorId, patientId) ==
  LET doctor == FindUserById(doctorId) IN
  IF <<doctorId, patientId>> \in everGranted THEN "true"
  ELSE IF ~doctor.found THEN Null
  ELSE IF patientId \in doctor.consultedPatients THEN "true" ELSE "false"

\* The mutated lookup treats an unresolved doctor as consulting.
isDoctorConsultingPatient_nullOk(doctorId, patientId) ==
  LET doctor == FindUserById(doctorId) IN
  IF ~doctor.found THEN "true"
  ELSE IF patientId \in doctor.consultedPatients THEN "true" ELSE "false"

\* The mutated lookup tests that the doctor consults anybody at all.
isDoctorConsultingPatient_any(doctorId, patientId) ==
  LET doctor == FindUserById(doctorId) IN
  IF ~doctor.found THEN Null
  ELSE IF doctor.consultedPatients # {} THEN "true" ELSE "false"

\* return doctor && doctor.consultedPatients.includes(patientId);
\* yields null (not false) when the doctor document is missing.
isDoctorConsultingPatient(doctorId, patientId) ==
  LET doctor == FindUserById(doctorId) IN
  IF ~doctor.found THEN Null
  ELSE IF patientId \in doctor.consultedPatients THEN "true" ELSE "false"

\* JavaScript truthiness of the value the lookup returns ("true", "false"
\* or "null").
Truthy(v) == v = "true"

\* ------------------------------------------------------------ the request
\* The request before any handler ran.  status 0: no response sent; error
\* Absent: the response body has no error field.
\* linkAtCheck, linkAtWrite, granted, dbOps, fetchCalls, failedFetch and
\* summarizer are history fields: what the registry held when the lookup
\* resolved and when the document was stored, whether the consultation check
\* let the request through, how many record-store operations and summarizer
\* calls the handler issued, which query of the summary handler rejected, and
\* how far the summarizer call got.
IdleReq ==
  [pc |-> "idle", user |-> [userId |-> "D1", role |-> "doctor"],
   op |-> "myPatients", patientId |-> "P1", content |-> TRUE, search |-> "",
   status |-> 0, error |-> Absent, data |-> <<>>, responses |-> 0,
   linkAtCheck |-> "none", linkAtWrite |-> "none", granted |-> FALSE,
   dbOps |-> 0, fetchCalls |-> 0,
   doctorPatients |-> {}, patientFound |-> FALSE,
   vitals |-> <<>>, files |-> <<>>, notes |-> <<>>, prompt |-> <<>>,
   failedFetch |-> "", summarizer |-> "notCalled", mistralOk |-> FALSE,
   mistralData |-> [hasChoices |-> FALSE, choices |-> <<>>,
                    hasError |-> FALSE, errorMessage |-> Absent]]

\* res.status(code).json(...): one more response on the wire.
Respond(r, code, err, payload) ==
  [r EXCEPT !.pc = "done", !.status = code, !.error = err, !.data = payload,
            !.responses = @ + 1]

\* A rejected promise that no try block encloses.  The async handler's
\* promise rejects; Express 4 drops it (the request is never answered),
\* Express 5 forwards it to the default error handler (a 500).
Unhandled(r, forwarded) ==
  IF forwarded
  THEN Respond(r, 500, "Internal Server Error", <<>>)
  ELSE [r EXCEPT !.pc = "rejected"]

\* The handler's promise has settled.
Finished(r) == r.pc \in {"done", "rejected"}

AccessDenied == "Access denied. You are not consulting this patient."

\* router.use((req, res, next) => ...): true when next() is called.
DoctorsOnly(user) == user.role = "doctor"

\* The route handler up to its first await.
Handler(r) ==
  CASE r.op = "myPatients" -> [r EXCEPT !.pc = "awaitDoctor"]
    [] r.op = "getNotes" ->
         IF r.user.role = "patient" /\ r.user.userId = r.patientId
         THEN [r EXCEPT !.pc = "awaitFind", !.dbOps = @ + 1]
         ELSE IF r.user.role = "doctor"
         THEN [r EXCEPT !.pc = "awaitConsult"]
         ELSE Respond(r, 403,
                "Access denied. Not authorized to view these notes.", <<>>)
    [] r.op = "myPrescriptions" ->
         IF r.user.role # "patient"
         THEN Respond(r, 403,
                "Only patients can view their prescriptions.", <<>>)
         ELSE [r EXCEPT !.pc = "awaitFind", !.dbOps = @ + 1]
    [] OTHER -> [r EXCEPT !.pc = "awaitConsult"]

\* What runs when the router-level auth middleware calls next(): the
\* doctors-only middleware and then the route.  The notes route of line 123
\* lists the auth middleware once more before its handler.
Dispatch(r) ==
  IF ~DoctorsOnly(r.user)
  THEN Respond(r, 403, "Access denied. Doctors only.", <<>>)
  ELSE IF r.op = "getNotes" THEN [r EXCEPT !.pc = "awaitAuth"]
  ELSE Handler(r)

\* The mutated guard is missing from the two write routes.
Denied_readsOnly(r, result) ==
  r.op \notin {"postNote", "postPrescription"} /\ ~Truthy(result)

\* if (!(await isDoctorConsultingPatient(req.user.userId, patientId)))
Denied(r, result) == ~Truthy(result)

\* The code that follows `await isDoctorConsultingPatient(...)` up to the
\* next await, for the value `result` the lookup returned.
AfterConsult(r, result) ==
  IF Denied(r, result)
  THEN Respond(r, 403,
         IF r.op = "getNotes"
         THEN "Access denied. Not authorized to view these notes."
         ELSE AccessDenied, <<>>)
  ELSE LET g == [r EXCEPT !.granted = TRUE] IN
       CASE r.op \in {"postNote", "postPrescription"} ->
              IF ~r.content
              THEN Respond(g, 400,
                     IF r.op = "postNote" THEN "Note content is required."
                     ELSE "Medications and instructions are required.", <<>>)
              ELSE [g EXCEPT !.pc = "awaitCreate", !.dbOps = @ + 1]
         [] r.op = "getSummary" -> [g EXCEPT !.pc = "awaitPatient"]
         [] OTHER -> [g EXCEPT !.pc = "awaitFind", !.dbOps = @ + 1]

\* The collection a read handler queries, filtered and sorted as it asks.
FindResult(r) ==
  CASE r.op = "getVitals" -> SortDesc(SelectSeqBy(vitalsDb, r.patientId))
    [] r.op = "getFiles" -> SortDesc(SelectSeqBy(filesDb, r.patientId))
    [] r.op = "getNotes" ->
         LET found == SortDesc(SelectSeqBy(notesDb, r.patientId)) IN
         [i \in 1..Len(found) |-> Populate(found[i])]
    [] OTHER ->
         LET found == SortDesc(SelectSeqBy(rxDb, r.user.userId)) IN
         [i \in 1..Len(found) |-> Populate(found[i])]

FindFailedMessage(op) ==
  CASE op = "getVitals" -> "Failed to fetch patient vitals"
    [] op = "getFiles" -> "Failed to fetch patient files"
    [] op = "getNotes" -> "Failed to fetch patient notes."
    [] OTHER -> "Failed to fetch your prescriptions."

\* ---------------------------------------------------------------- actions
\* The server starts on a database that holds one vital-signs entry and one
\* file of patient P1 and no consultation link, note or prescription yet.
Init ==
  /\ consulted = [d \in {"D1"} |-> {}]
  /\ now = 1
  /\ vitalsDb = <<[patientId |-> "P1", createdAt |-> 1]>>
  /\ filesDb = <<[patientId |-> "P1", createdAt |-> 1]>>
  /\ notesDb = <<>>
  /\ rxDb = <<>>
  /\ apiKey \in BOOLEAN
  /\ reqs = [c \in Conns |-> IdleReq]
  /\ everGranted = {}
  /\ revoked = {}

UsesPatient(op) == op \notin {"myPatients", "myPrescriptions"}
UsesBody(op) == op \in {"postNote", "postPrescription"}
\* req.query.search: not given, a text found in P1's email only, a text
\* found in no user.
Searches == {"", "org", "zzz"}

\* A connection carries one request; the next request takes the first
\* connection not used yet.
Free(c) == reqs[c].pc = "idle"
FirstFree(c) == Free(c) /\ \A b \in Conns : b < c => ~Free(b)

\* A request arrives with the identity the auth middleware verified.
Arrive(c) ==
  /\ FirstFree(c)
  /\ \E a \in Actors, op \in Ops, p \in Patients, b \in BOOLEAN,
        q \in Searches :
       /\ UsesPatient(op) \/ p = "P1"
       /\ UsesBody(op) \/ b
       /\ op = "myPatients" \/ q = ""
       /\ reqs' = [reqs EXCEPT ![c] =
            Dispatch([IdleReq EXCEPT !.user = a, !.op = op, !.patientId = p,
                                     !.content = b, !.search = q])]
  /\ UNCHANGED <<consulted, now, vitalsDb, filesDb, notesDb, rxDb, apiKey,
                 everGranted, revoked>>

\* The auth middleware of the notes route calls next() with the identity it
\* verified before.
AuthReturn(c) ==
  /\ reqs[c].pc = "awaitAuth"
  /\ reqs' = [reqs EXCEPT ![c] = Handler(reqs[c])]
  /\ UNCHANGED <<consulted, now, vitalsDb, filesDb, notesDb, rxDb, apiKey,
                 everGranted, revoked>>

\* `await isDoctorConsultingPatient(req.user.userId, patientId)` settles.
\* No try block encloses it in any handler.
ConsultReturn(c) ==
  /\ reqs[c].pc = "awaitConsult"
  /\ \E outcome \in {"resolved", "dropped", "forwarded"} :
       IF outcome = "resolved"
       THEN LET d == reqs[c].user.userId
                p == reqs[c].patientId
                result == isDoctorConsultingPatient(d, p)
                r == [reqs[c] EXCEPT !.linkAtCheck =
                                       IF Linked(d, p) THEN "yes" ELSE "no"]
            IN /\ reqs' = [reqs EXCEPT ![c] = AfterConsult(r, result)]
               /\ everGranted' = IF Truthy(result)
                                 THEN everGranted \cup {<<d, p>>}
                                 ELSE everGranted
       ELSE /\ reqs' = [reqs EXCEPT ![c] =
                          Unhandled(reqs[c], outcome = "forwarded")]
            /\ UNCHANGED everGranted
  /\ UNCHANGED <<consulted, now, vitalsDb, filesDb, notesDb, rxDb, apiKey,
                 revoked>>

\* `await Model.find(...).sort({createdAt: -1})` of a read handler settles.
FindReturn(c) ==
  /\ reqs[c].pc = "awaitFind"
  /\ \E ok \in BOOLEAN :
       reqs' = [reqs EXCEPT ![c] =
                  IF ok
                  THEN Respond(reqs[c], 200, Absent, FindResult(reqs[c]))
                  ELSE Respond(reqs[c], 500, FindFailedMessage(reqs[c].op),
                               <<>>)]
  /\ UNCHANGED <<consulted, now, vitalsDb, filesDb, notesDb, rxDb, apiKey,
                 everGranted, revoked>>

\* The document Note.create / Prescription.create stores, stamped with the
\* time t of the store.
NewDoc(r, t) ==
  [patientId |-> r.patientId, doctorId |-> r.user.userId, createdAt |-> t]

\* `await Note.create(...)` / `await Prescription.create(...)` settles; the
\* document is stamped with the clock, which never runs backwards.
CreateReturn(c) ==
  /\ reqs[c].pc = "awaitCreate"
  /\ \/ \E t \in now..MaxClock :
          /\ now' = t
          /\ IF reqs[c].op = "postNote"
             THEN /\ Len(notesDb) < MaxRecords
                  /\ notesDb' = Append(notesDb, NewDoc(reqs[c], t))
                  /\ UNCHANGED rxDb
             ELSE /\ Len(rxDb) < MaxRecords
                  /\ rxDb' = Append(rxDb, NewDoc(reqs[c], t))
                  /\ UNCHANGED notesDb
          /\ reqs' = [reqs EXCEPT ![c] =
               Respond([reqs[c] EXCEPT !.linkAtWrite =
                          IF Linked(reqs[c].user.userId, reqs[c].patientId)
                          THEN "yes" ELSE "no"],
                       201, Absent, <<NewDoc(reqs[c], t)>>)]
     \/ /\ reqs' = [reqs EXCEPT ![c] =
               Respond(reqs[c], 500,
                       IF reqs[c].op = "postNote" THEN "Failed to add note"
                       ELSE "Failed to issue prescription.", <<>>)]
        /\ UNCHANGED <<now, notesDb, rxDb>>
  /\ UNCHANGED <<consulted, vitalsDb, filesDb, apiKey, everGranted, revoked>>

\* ------------------------------------------------------------ my-patients
\* `await User.findById(req.user.userId).select("consultedPatients")`.
DoctorReturn(c) ==
  /\ reqs[c].pc = "awaitDoctor"
  /\ \E ok \in BOOLEAN :
       reqs' = [reqs EXCEPT ![c] =
         IF ~ok
         THEN Respond(reqs[c], 500, "Failed to fetch your patients.", <<>>)
         ELSE LET doctor == FindUserById(reqs[c].user.userId) IN
              IF ~doctor.found
              THEN Respond(reqs[c], 404, "Doctor not found.", <<>>)
              ELSE [reqs[c] EXCEPT !.pc = "awaitPatients",
                      !.doctorPatients = doctor.consultedPatients]]
  /\ UNCHANGED <<consulted, now, vitalsDb, filesDb, notesDb, rxDb, apiKey,
                 everGranted, revoked>>

\* The name and the email of the stored users, and the texts that occur in
\* them whatever the case ({ $regex: search, $options: "i" }).
UserName == [u \in StoredUsers |-> IF u = "D1" THEN "Dan" ELSE "Alice"]
UserEmail ==
  [u \in StoredUsers |-> IF u = "D1" THEN "dan@clinic.net" ELSE "alice@mail.org"]
RegexMatch(pattern, text) ==
  <<pattern, text>> \in {<<"org", "alice@mail.org">>}

\* User.find(query): query is { _id: { $in: ids } }, and when search is
\* given also { $or: [{ name: regex }, { email: regex }] }.
FindUsersIn(ids, search) ==
  SelectSeq(<<"D1", "P1">>,
            LAMBDA u : /\ u \in ids
                       /\ u \in StoredUsers
                       /\ \/ search = ""
                          \/ RegexMatch(search, UserName[u])
                          \/ RegexMatch(search, UserEmail[u]))

\* `await User.find(query).select("-password -__v")`.
PatientsReturn(c) ==
  /\ reqs[c].pc = "awaitPatients"
  /\ \E ok \in BOOLEAN :
       reqs' = [reqs EXCEPT ![c] =
         IF ok
         THEN Respond(reqs[c], 200, Absent,
                      FindUsersIn(reqs[c].doctorPatients, reqs[c].search))
         ELSE Respond(reqs[c], 500, "Failed to fetch your patients.", <<>>)]
  /\ UNCHANGED <<consulted, now, vitalsDb, filesDb, notesDb, rxDb, apiKey,
                 everGranted, revoked>>

\* ---------------------------------------------------------------- summary
Line(kind, text, date) == [kind |-> kind, text |-> text, date |-> date]

\* - <date>: BP .., Sugar .., HR ..
VitalLine(v) == Line("vital", "BP Sugar HR", LocaleDate(v.createdAt))
\* - <date> (Dr. <name or Unknown>): <content>
NoteLine(n) ==
  Line("note", IF n.doctorId # Null THEN n.doctorId ELSE "Unknown",
       LocaleDate(n.createdAt))
\* - <fileName> (<date>)
FileLine(f) == Line("file", "fileName", LocaleDate(f.createdAt))

\* The mutated section writes its header for an empty collection too.
Section_always(header, lines) ==
  <<Line("header", header, 0)>> \o lines \o <<Line("blank", "", 0)>>

\* if (xs.length > 0) { prompt += header; xs.forEach(...); prompt += "\n"; }
Section(header, lines) ==
  IF Len(lines) > 0
  THEN <<Line("header", header, 0)>> \o lines \o <<Line("blank", "", 0)>>
  ELSE <<>>

VitalsHeader == "Vitals History:"
NotesHeader == "Doctor's Notes:"
FilesHeader == "Uploaded Files (names):"

\* The prompt, a sequence of lines: the instruction, the three sections in
\* the order vitals, notes, files, and the closing task.
BuildPrompt(vitals, notes, files) ==
  <<Line("intro", "Generate a concise health summary", 0),
    Line("intro", "Include current and past health conditions", 0)>>
  \o Section(VitalsHeader, [i \in 1..Len(vitals) |-> VitalLine(vitals[i])])
  \o Section(NotesHeader, [i \in 1..Len(notes) |-> NoteLine(notes[i])])
  \o Section(FilesHeader, [i \in 1..Len(files) |-> FileLine(files[i])])
  \o <<Line("closing", "Based on this, provide a concise summary", 0)>>

\* catch (error) { res.status(500).json(...) } of the summary handler.
SummaryCatch(r) ==
  Respond(r, 500, "Failed to generate health summary due to server error.",
          <<>>)

\* What follows the last query of the summary handler up to `await fetch`:
\* the patient check, the prompt assembly and the credential check.
AfterFetches(r) ==
  IF ~r.patientFound
  THEN Respond(r, 404, "Patient not found.", <<>>)
  ELSE LET q == [r EXCEPT !.prompt = BuildPrompt(r.vitals, r.notes, r.files)]
       IN IF ~apiKey
          THEN Respond(q, 500, "Mistral API Key not configured on server.",
                       <<>>)
          ELSE [q EXCEPT !.pc = "awaitFetch", !.fetchCalls = @ + 1,
                         !.summarizer = "pending"]

\* The query the summary handler awaits next.
NextFetch(pc) ==
  CASE pc = "awaitPatient" -> "awaitVitals"
    [] pc = "awaitVitals" -> "awaitFiles"
    [] OTHER -> "awaitNotes"

\* The mutated handler goes on with an empty category when a query rejects.
OnFindRejected_swallow(r) ==
  IF r.pc = "awaitNotes" THEN AfterFetches(r)
  ELSE [r EXCEPT !.pc = NextFetch(r.pc), !.dbOps = @ + 1]

\* A rejected query inside the try block lands in the catch clause.
OnFindRejected(r) == SummaryCatch(r)

\* `await User.findById(patientId).select("name email role")`.
SummaryPatientReturn(c) ==
  /\ reqs[c].pc = "awaitPatient"
  /\ \E ok \in BOOLEAN :
       reqs' = [reqs EXCEPT ![c] =
         IF ok
         THEN [reqs[c] EXCEPT !.pc = "awaitVitals", !.dbOps = @ + 1,
                 !.patientFound = FindUserById(reqs[c].patientId).found]
         ELSE OnFindRejected([reqs[c] EXCEPT !.failedFetch = "patient"])]
  /\ UNCHANGED <<consulted, now, vitalsDb, filesDb, notesDb, rxDb, apiKey,
                 everGranted, revoked>>

\* `await Record.find({ userId: patientId }).sort({ createdAt: 1 })`.
SummaryVitalsReturn(c) ==
  /\ reqs[c].pc = "awaitVitals"
  /\ \E ok \in BOOLEAN :
       reqs' = [reqs EXCEPT ![c] =
         IF ok
         THEN [reqs[c] EXCEPT !.pc = "awaitFiles", !.dbOps = @ + 1,
                 !.vitals = SortAsc(SelectSeqBy(vitalsDb, reqs[c].patientId))]
         ELSE OnFindRejected([reqs[c] EXCEPT !.failedFetch = "vitals"])]
  /\ UNCHANGED <<consulted, now, vitalsDb, filesDb, notesDb, rxDb, apiKey,
                 everGranted, revoked>>

\* `await File.find({ userId: patientId }).sort({ createdAt: 1 })`.
SummaryFilesReturn(c) ==
  /\ reqs[c].pc = "awaitFiles"
  /\ \E ok \in BOOLEAN :
       reqs' = [reqs EXCEPT ![c] =
         IF ok
         THEN [reqs[c] EXCEPT !.pc = "awaitNotes", !.dbOps = @ + 1,
                 !.files = SortAsc(SelectSeqBy(filesDb, reqs[c].patientId))]
         ELSE OnFindRejected([reqs[c] EXCEPT !.failedFetch = "files"])]
  /\ UNCHANGED <<consulted, now, vitalsDb, filesDb, notesDb, rxDb, apiKey,
                 everGranted, revoked>>

\* `await Note.find({ patientId }).sort({ createdAt: 1 }).populate(...)`,
\* then the handler runs on to `await fetch(...)`.
SummaryNotesReturn(c) ==
  /\ reqs[c].pc = "awaitNotes"
  /\ \E ok \in BOOLEAN :
       reqs' = [reqs EXCEPT ![c] =
         IF ok
         THEN LET found == SortAsc(SelectSeqBy(notesDb, reqs[c].patientId))
              IN AfterFetches([reqs[c] EXCEPT !.notes =
                   [i \in 1..Len(found) |-> Populate(found[i])]])
         ELSE OnFindRejected([reqs[c] EXCEPT !.failedFetch = "notes"])]
  /\ UNCHANGED <<consulted, now, vitalsDb, filesDb, notesDb, rxDb, apiKey,
                 everGranted, revoked>>

\* A choice of the chat-completion response.  hasMessage = FALSE is a
\* choice without a message object; content is the message's content: a
\* text, null, or Absent when the message has no content field.
Choice(text) == [hasMessage |-> TRUE, content |-> text]
BadChoice == [hasMessage |-> FALSE, content |-> ""]

\* A response body: choices (when present) and error (hasError: the field is
\* there and truthy); errorMessage is error.message: a text, null, or Absent
\* when error carries no message.
Body(hasChoices, choices, hasError, message) ==
  [hasChoices |-> hasChoices, choices |-> choices, hasError |-> hasError,
   errorMessage |-> message]

\* The response bodies the summarizer may send.
MistralBodies ==
  {Body(FALSE, <<>>, FALSE, Absent),
   Body(FALSE, <<>>, TRUE, "Unauthorized"),
   Body(FALSE, <<>>, TRUE, ""),
   Body(FALSE, <<>>, TRUE, Absent),
   Body(FALSE, <<>>, TRUE, Null),
   Body(TRUE, <<>>, FALSE, Absent),
   Body(TRUE, <<>>, TRUE, ""),
   Body(TRUE, <<Choice("s1")>>, FALSE, Absent),
   Body(TRUE, <<Choice("s1"), Choice("s2")>>, FALSE, Absent),
   Body(TRUE, <<Choice("")>>, FALSE, Absent),
   Body(TRUE, <<Choice(Null)>>, FALSE, Absent),
   Body(TRUE, <<Choice(Absent)>>, FALSE, Absent),
   Body(TRUE, <<BadChoice>>, FALSE, Absent)}

\* `await fetch(mistralApiUrl, ...)`: a network failure rejects; any HTTP
\* response resolves, with ok true for a 2xx status.
SummaryFetchReturn(c) ==
  /\ reqs[c].pc = "awaitFetch"
  /\ \E outcome \in {"networkError", "ok", "notOk"} :
       reqs' = [reqs EXCEPT ![c] =
         IF outcome = "networkError"
         THEN SummaryCatch([reqs[c] EXCEPT !.summarizer = "networkError"])
         ELSE [reqs[c] EXCEPT !.pc = "awaitJson", !.summarizer = "responded",
                              !.mistralOk = (outcome = "ok")]]
  /\ UNCHANGED <<consulted, now, vitalsDb, filesDb, notesDb, rxDb, apiKey,
                 everGranted, revoked>>

\* res.json({ summary: v }): JSON.stringify leaves out a field whose value is
\* undefined, so the body is {} then; null and the empty text are kept.
SummaryJson(v) == IF v = Absent THEN <<>> ELSE <<v>>

\* The mutated result handling answers with the last choice.
SummaryResult_last(r, data) ==
  IF r.mistralOk /\ data.hasChoices /\ Len(data.choices) > 0
  THEN IF ~data.choices[Len(data.choices)].hasMessage
       THEN SummaryCatch(r)
       ELSE Respond(r, 200, Absent,
                    SummaryJson(data.choices[Len(data.choices)].content))
  ELSE Respond(r, 500,
         IF data.hasError THEN data.errorMessage
         ELSE "Failed to generate summary from AI.", <<>>)

\* if (mistralResponse.ok && mistralData.choices && choices.length > 0)
\*   res.json({ summary: choices[0].message.content })   (a choice without
\*   message throws a TypeError into the catch clause)
\* else res.status(500).json({ error: mistralData.error
\*        ? mistralData.error.message : "Failed to generate ..." })
\*   (an error without message leaves the response without error field, a
\*   summary without content leaves the response without summary field)
SummaryResult(r, data) ==
  IF r.mistralOk /\ data.hasChoices /\ Len(data.choices) > 0
  THEN IF ~data.choices[1].hasMessage
       THEN SummaryCatch(r)
       ELSE Respond(r, 200, Absent, SummaryJson(data.choices[1].content))
  ELSE Respond(r, 500,
         IF data.hasError THEN data.errorMessage
         ELSE "Failed to generate summary from AI.", <<>>)

\* `await mistralResponse.json()`: a body that is no JSON rejects.
SummaryJsonReturn(c) ==
  /\ reqs[c].pc = "awaitJson"
  /\ \/ reqs' = [reqs EXCEPT ![c] =
                   SummaryCatch([reqs[c] EXCEPT !.summarizer = "badBody"])]
     \/ \E data \in MistralBodies :
          reqs' = [reqs EXCEPT ![c] =
                     SummaryResult([reqs[c] EXCEPT !.summarizer = "parsed",
                                                   !.mistralData = data],
                                   data)]
  /\ UNCHANGED <<consulted, now, vitalsDb, filesDb, notesDb, rxDb, apiKey,
                 everGranted, revoked>>

\* ------------------------------------------------------------ environment
\* routes/consultationRoutes.js: a patient is added to a doctor's set.
AddLink ==
  \E d \in DOMAIN consulted, p \in Patients :
    /\ p \notin consulted[d]
    /\ consulted' = [consulted EXCEPT ![d] = @ \cup {p}]
    /\ revoked' = revoked \ {<<d, p>>}
    /\ UNCHANGED <<now, vitalsDb, filesDb, notesDb, rxDb, apiKey, reqs,
                   everGranted>>

\* A patient is removed from a doctor's set.
RemoveLink ==
  \E d \in DOMAIN consulted, p \in Patients :
    /\ p \in consulted[d]
    /\ consulted' = [consulted EXCEPT ![d] = @ \ {p}]
    /\ revoked' = revoked \cup {<<d, p>>}
    /\ UNCHANGED <<now, vitalsDb, filesDb, notesDb, rxDb, apiKey, reqs,
                   everGranted>>

Next ==
  \/ \E c \in Conns : Arrive(c)
  \/ \E c \in Conns : AuthReturn(c)
  \/ \E c \in Conns : ConsultReturn(c)
  \/ \E c \in Conns : FindReturn(c)
  \/ \E c \in Conns : CreateReturn(c)
  \/ \E c \in Conns : DoctorReturn(c)
  \/ \E c \in Conns : PatientsReturn(c)
  \/ \E c \in Conns : SummaryPatientReturn(c)
  \/ \E c \in Conns : SummaryVitalsReturn(c)
  \/ \E c \in Conns : SummaryFilesReturn(c)
  \/ \E c \in Conns : SummaryNotesReturn(c)
  \/ \E c \in Conns : SummaryFetchReturn(c)
  \/ \E c \in Conns : SummaryJsonReturn(c)
  \/ AddLink
  \/ RemoveLink

Spec == Init /\ [][Next]_vars

\* ------------------------------------------- the summary on a given database
Monotone(c) == \A i \in 1..(Len(c) - 1) : c[i].createdAt <= c[i + 1].createdAt

\* The collections of n documents over recs whose createdAt does not decrease
\* in insertion order.
Collections(recs, n) == {c \in [1..n -> recs] : Monotone(c)}

VitalDocs == [patientId : Patients, createdAt : Times]
NoteDocs == [patientId : Patients, doctorId : Doctors, createdAt : Times]

\* Doctor D1 consults both patients; the record stores hold any MaxRecords
\* documents at most.
InitSummary ==
  /\ consulted = [d \in {"D1"} |-> Patients]
  /\ now = MaxClock
  /\ \E lv \in 0..MaxRecords :
       \E lf \in 0..(MaxRecords - lv) :
         \E ln \in 0..(MaxRecords - lv - lf) :
           /\ vitalsDb \in Collections(VitalDocs, lv)
           /\ filesDb \in Collections(VitalDocs, lf)
           /\ notesDb \in Collections(NoteDocs, ln)
  /\ rxDb = <<>>
  /\ apiKey \in BOOLEAN
  /\ reqs = [c \in Conns |-> IdleReq]
  /\ everGranted = {}
  /\ revoked = {}

\* Doctor D1 asks for the summary of a patient on the first connection, or
\* writes a note on the second, for the stored patient P1 (the only patient
\* whose summary gets as far as a prompt).
ArriveSummary(c) ==
  /\ reqs[c].pc = "idle"
  /\ \E p \in Patients :
       /\ c = 1 \/ p = "P1"
       /\ reqs' = [reqs EXCEPT ![c] =
            Dispatch([IdleReq EXCEPT
                        !.op = IF c = 1 THEN "getSummary" ELSE "postNote",
                        !.patientId = p])]
  /\ UNCHANGED <<consulted, now, vitalsDb, filesDb, notesDb, rxDb, apiKey,
                 everGranted, revoked>>

NextSummary ==
  \/ \E c \in Conns : ArriveSummary(c)
  \/ \E c \in Conns : ConsultReturn(c)
  \/ \E c \in Conns : CreateReturn(c)
  \/ \E c \in Conns : SummaryPatientReturn(c)
  \/ \E c \in Conns : SummaryVitalsReturn(c)
  \/ \E c \in Conns : SummaryFilesReturn(c)
  \/ \E c \in Conns : SummaryNotesReturn(c)
  \/ \E c \in Conns : SummaryFetchReturn(c)
  \/ \E c \in Conns : SummaryJsonReturn(c)

SpecSummary == InitSummary /\ [][NextSummary]_vars

\* ================================================================ properties
NotesDenied == "Access denied. Not authorized to view these notes."
ServerError == "Failed to generate health summary due to server error."
NoSummary == "Failed to generate summary from AI."

\* The request was answered with the authorization denial and nothing of the
\* operation's body ran: no record-store operation, no summarizer call.
DeniedUntouched(r) ==
  /\ r.pc = "done"
  /\ r.status = 403
  /\ r.error \in {AccessDenied, NotesDenied}
  /\ r.responses = 1
  /\ ~r.granted
  /\ r.dbOps = 0
  /\ r.fetchCalls = 0
  /\ r.data = <<>>

\* C1: once the consultation lookup of a doctor's request has resolved, the
\* request is let through iff the patient was in the doctor's consulted set
\* when the lookup read it; when the patient was not in the set the request is
\* answered 403 "not consulting" and no store read, store write or summarizer
\* call has run.  This holds for every request, whatever the other requests
\* do meanwhile.
C1_AuthorizeIffConsulted ==
  \A c \in Conns :
    (reqs[c].user.role = "doctor" /\ reqs[c].linkAtCheck # "none") =>
      /\ reqs[c].granted <=> (reqs[c].linkAtCheck = "yes")
      /\ (reqs[c].linkAtCheck = "no") => DeniedUntouched(reqs[c])

\* Doctor D1 consults P1 only: while one request of D1 is refused a note for
\* P2, another request of D1 was let through to write a note for P1.
C1_Witness ==
  /\ consulted["D1"] = {"P1"}
  /\ \E c, b \in Conns :
       /\ reqs[c].user.userId = "D1"
       /\ reqs[c].op = "postNote"
       /\ reqs[c].patientId = "P2"
       /\ reqs[c].linkAtCheck = "no"
       /\ reqs[c].status = 403
       /\ reqs[b].user.userId = "D1"
       /\ reqs[b].op = "postNote"
       /\ reqs[b].patientId = "P1"
       /\ reqs[b].linkAtCheck = "yes"
       /\ reqs[b].granted

\* C2 (as claimed): a patient asking for their own notes or prescriptions is
\* not refused, and a patient asking to write a note or a prescription for
\* themself is refused.  The two read routes are the ones this router
\* documents as open to patients.
C2_PatientReadsOwnRecord ==
  \A c \in Conns :
    (reqs[c].pc = "done" /\ reqs[c].user.role = "patient"
       /\ reqs[c].user.userId = reqs[c].patientId) =>
      /\ (reqs[c].op \in {"getNotes", "myPrescriptions"})
           => reqs[c].status # 403
      /\ (reqs[c].op \in {"postNote", "postPrescription"})
           => reqs[c].status = 403

\* C3: a consultation lookup that resolves while the pair is revoked never
\* lets the request through, whatever was granted to the pair before: the
\* request is answered with the denial and nothing of its body has run.
C3_RevocationDenies ==
  [][\A c \in Conns :
       (/\ reqs[c].pc = "awaitConsult"
        /\ <<reqs[c].user.userId, reqs[c].patientId>> \in revoked
        /\ reqs'[c].pc # "awaitConsult")
       => (/\ ~reqs'[c].granted
           /\ reqs'[c].dbOps = 0
           /\ reqs'[c].linkAtCheck # "none" => DeniedUntouched(reqs'[c]))]_vars

\* A pair that was let through in one request is refused in another after
\* its revocation.
C3_Witness ==
  \E c, b \in Conns :
    /\ c # b
    /\ reqs[b].user.userId = reqs[c].user.userId
    /\ reqs[b].patientId = reqs[c].patientId
    /\ reqs[b].granted
    /\ <<reqs[c].user.userId, reqs[c].patientId>> \in everGranted
    /\ <<reqs[c].user.userId, reqs[c].patientId>> \in revoked
    /\ reqs[c].linkAtCheck = "no"
    /\ reqs[c].status = 403
    /\ reqs[c].error = AccessDenied

\* C4: for a doctor identity without a stored record the lookup answers
\* "not consulting" for every patient, the request whose lookup resolved is
\* answered with the authorization denial (never a 5xx, never unanswered), and
\* the step that resolves a lookup changes neither the registry nor a store.
C4_UnresolvedDoctorDenied ==
  /\ [](/\ \A d \in Doctors \ StoredUsers, p \in Patients :
             ~Truthy(isDoctorConsultingPatient(d, p))
        /\ \A c \in Conns :
             (reqs[c].user.userId \notin StoredUsers
                /\ reqs[c].linkAtCheck # "none")
               => DeniedUntouched(reqs[c]))
  /\ [][(\E c \in Conns :
           reqs[c].pc = "awaitConsult" /\ reqs'[c].pc # "awaitConsult")
        => UNCHANGED <<consulted, vitalsDb, filesDb, notesDb, rxDb>>]_vars

\* The unresolved doctor D0 asked for a patient's vitals and was refused.
C4_Witness ==
  \E c \in Conns :
    /\ reqs[c].user.userId = "D0"
    /\ reqs[c].op = "getVitals"
    /\ reqs[c].linkAtCheck = "no"
    /\ reqs[c].status = 403
    /\ reqs[c].error = AccessDenied

\* C5: when a query of the summary handler rejects, the request ends with the
\* 500 server-error response: no summary, no prompt, no summarizer call.
C5_FailedFetchFailsSummary ==
  \A c \in Conns :
    (reqs[c].failedFetch # "") =>
      /\ reqs[c].pc = "done"
      /\ reqs[c].status = 500
      /\ reqs[c].error = ServerError
      /\ reqs[c].responses = 1
      /\ reqs[c].data = <<>>
      /\ reqs[c].prompt = <<>>
      /\ reqs[c].fetchCalls = 0

\* The vitals were fetched and are not empty, then the files query rejected,
\* for a patient who has notes.
C5_Witness ==
  \E c \in Conns :
    /\ reqs[c].failedFetch = "files"
    /\ Len(reqs[c].vitals) > 0
    /\ Len(SelectSeqBy(notesDb, reqs[c].patientId)) > 0
    /\ reqs[c].status = 500

\* The createdAt values of a sequence of documents.
Stamps(docs) == [i \in 1..Len(docs) |-> docs[i].createdAt]
NonDecreasing(ts) == \A i \in 1..(Len(ts) - 1) : ts[i] <= ts[i + 1]
\* The entry lines of a prompt, in document order.
EntryKinds(prompt) ==
  LET entries == SelectSeq(prompt, LAMBDA l : l.kind \in {"vital", "note", "file"})
  IN [i \in 1..Len(entries) |-> entries[i].kind]
\* The entries of the document in the order it presents them.
TimelineStamps(r) == Stamps(r.vitals) \o Stamps(r.notes) \o Stamps(r.files)
\* The documents of docs that belong to a patient, as a set.
DocsOf(docs, p) == {docs[i] : i \in {j \in 1..Len(docs) : docs[j].patientId = p}}
\* The documents of a fetched collection, as a set, with the fields of the
\* stored documents.
Fetched(docs) ==
  {[patientId |-> docs[i].patientId, createdAt |-> docs[i].createdAt]
     : i \in 1..Len(docs)}
StampedOf(docs, p) ==
  {[patientId |-> d.patientId, createdAt |-> d.createdAt] : d \in DocsOf(docs, p)}

\* C6 (as claimed): the entries of the assembled document number as many as
\* the fetched documents and are globally non-decreasing by timestamp.
C6_GloballyOrdered ==
  \A c \in Conns :
    (reqs[c].prompt # <<>>) =>
      /\ Len(EntryKinds(reqs[c].prompt)) = Len(TimelineStamps(reqs[c]))
      /\ NonDecreasing(TimelineStamps(reqs[c]))

\* C6 (amended): the document holds one entry per fetched document, the
\* vitals first, then the notes, then the files, and each of the three runs
\* is non-decreasing by timestamp; the fetched vitals and files are the
\* patient's stored ones, the fetched notes are among the patient's stored
\* ones (a note may be stored while the summary is under way).
C6_SectionsOrdered ==
  \A c \in Conns :
    (reqs[c].prompt # <<>>) =>
      LET r == reqs[c]
          m == Len(r.vitals)
          n == Len(r.notes)
          k == Len(r.files)
      IN /\ EntryKinds(r.prompt) =
              [i \in 1..m |-> "vital"] \o [i \in 1..n |-> "note"]
                \o [i \in 1..k |-> "file"]
         /\ m = Len(SelectSeqBy(vitalsDb, r.patientId))
         /\ k = Len(SelectSeqBy(filesDb, r.patientId))
         /\ n <= Len(SelectSeqBy(notesDb, r.patientId))
         /\ Fetched(r.vitals) = StampedOf(vitalsDb, r.patientId)
         /\ Fetched(r.files) = StampedOf(filesDb, r.patientId)
         /\ Fetched(r.notes) \subseteq StampedOf(notesDb, r.patientId)
         /\ NonDecreasing(Stamps(r.vitals))
         /\ NonDecreasing(Stamps(r.notes))
         /\ NonDecreasing(Stamps(r.files))

\* A stored note, a note written while the summary was under way and a vital
\* younger than the first note: the notes section is ordered, the document
\* as a whole is not.
C6_Witness ==
  \E c \in Conns :
    /\ reqs[c].prompt # <<>>
    /\ Len(reqs[c].notes) = 2
    /\ reqs[c].notes[1].createdAt < reqs[c].notes[2].createdAt
    /\ Len(reqs[c].vitals) = 1
    /\ reqs[c].notes[1].createdAt < reqs[c].vitals[1].createdAt
    /\ \E b \in Conns : reqs[b].op = "postNote" /\ reqs[b].status = 201

\* The section headers a prompt holds.
Headers(prompt) ==
  {prompt[i].text : i \in {j \in 1..Len(prompt) : prompt[j].kind = "header"}}

\* C7: the assembled document holds the header of a section iff the
\* collection the handler fetched for it is not empty.
C7_SectionIffNonEmpty ==
  \A c \in Conns :
    (reqs[c].prompt # <<>>) =>
      /\ (VitalsHeader \in Headers(reqs[c].prompt))
           <=> (reqs[c].vitals # <<>>)
      /\ (NotesHeader \in Headers(reqs[c].prompt))
           <=> (reqs[c].notes # <<>>)
      /\ (FilesHeader \in Headers(reqs[c].prompt))
           <=> (reqs[c].files # <<>>)
      /\ Headers(reqs[c].prompt)
           \subseteq {VitalsHeader, NotesHeader, FilesHeader}

\* A patient with notes but neither vitals nor files: the only section is
\* "Doctor's Notes:".
C7_Witness ==
  \E c \in Conns :
    /\ reqs[c].prompt # <<>>
    /\ SelectSeqBy(notesDb, reqs[c].patientId) # <<>>
    /\ reqs[c].notes # <<>>
    /\ SelectSeqBy(vitalsDb, reqs[c].patientId) = <<>>
    /\ SelectSeqBy(filesDb, reqs[c].patientId) = <<>>
    /\ Headers(reqs[c].prompt) = {NotesHeader}

\* C8: a summary is returned only after a 2xx response whose body holds at
\* least one choice, and it is the first choice's content (a first choice
\* whose message has no content is answered 200 without summary field); no
\* other response carries a summary; an empty choice list,
\* a non-2xx response or a network failure ends in one 500 error response
\* without summary, and a body with neither choices nor error is answered
\* with the "Failed to generate summary" message.
C8_SummaryOnlyFromFirstCandidate ==
  \A c \in Conns :
    (reqs[c].op = "getSummary" /\ Finished(reqs[c])) =>
      /\ (reqs[c].status = 200) =>
           /\ reqs[c].summarizer = "parsed"
           /\ reqs[c].mistralOk
           /\ reqs[c].mistralData.hasChoices
           /\ Len(reqs[c].mistralData.choices) >= 1
           /\ reqs[c].data =
                SummaryJson(reqs[c].mistralData.choices[1].content)
      /\ (reqs[c].data # <<>>) => reqs[c].status = 200
      /\ (\/ reqs[c].summarizer = "networkError"
          \/ (reqs[c].summarizer = "parsed" /\ ~reqs[c].mistralOk)
          \/ (reqs[c].summarizer = "parsed"
                /\ reqs[c].mistralData.choices = <<>>))
           => /\ reqs[c].pc = "done"
              /\ reqs[c].status = 500
              /\ reqs[c].responses = 1
              /\ reqs[c].data = <<>>
              /\ (reqs[c].summarizer = "parsed"
                    /\ ~reqs[c].mistralData.hasError)
                   => reqs[c].error = NoSummary

\* The summarizer sent two choices and the summary is the first one's text.
C8_Witness ==
  \E c \in Conns :
    /\ reqs[c].status = 200
    /\ reqs[c].op = "getSummary"
    /\ Len(reqs[c].mistralData.choices) = 2
    /\ reqs[c].data = <<"s1">>

\* C9 (as claimed): whenever a note or a prescription is stored, the patient
\* is in the authoring doctor's consulted set at that moment.
C9_LinkedWhenStored == \A c \in Conns : reqs[c].linkAtWrite # "no"

\* C9 (amended): a step that stores a note or a prescription stores the
\* document of one request in flight, for its patient and by its doctor, and
\* that request's consultation lookup found the patient in the doctor's set.
C9_LinkedWhenChecked ==
  [][(notesDb' # notesDb \/ rxDb' # rxDb)
     => \E c \in Conns :
          /\ reqs[c].pc = "awaitCreate"
          /\ reqs[c].granted
          /\ reqs[c].linkAtCheck = "yes"
          /\ \E t \in Times :
               \/ /\ notesDb' = Append(notesDb, NewDoc(reqs[c], t))
                  /\ rxDb' = rxDb
               \/ /\ rxDb' = Append(rxDb, NewDoc(reqs[c], t))
                  /\ notesDb' = notesDb]_vars

\* A prescription was stored after the link it was checked against was removed.
C9_Witness ==
  \E c \in Conns :
    /\ reqs[c].op = "postPrescription"
    /\ reqs[c].status = 201
    /\ reqs[c].linkAtCheck = "yes"
    /\ reqs[c].linkAtWrite = "no"
    /\ Len(rxDb) > 0

\* C10 (as claimed): a request whose handler has ended was answered exactly
\* once, and no request is answered twice.
C10_ExactlyOneResponse ==
  \A c \in Conns :
    /\ reqs[c].responses <= 1
    /\ Finished(reqs[c]) => reqs[c].responses = 1

====
